---- MODULE Spec2Model ----
(***************************************************************************)
(* A model of package core (db.go): the named-placeholder facade over      *)
(* database/sql.  DB, Tx and Stmt wrap the driver's handles; the Map and   *)
(* Struct entry points rewrite `?name` placeholders to `?` and bind an     *)
(* ordered argument list from a map or a struct.                           *)
(*                                                                         *)
(* A query is a sequence of one-character strings.  A name (map key,       *)
(* struct field, key of Stmt.names) is the sequence of the characters of   *)
(* the identifier.  An interface{} value is a record [kind, v].            *)
(***************************************************************************)
EXTENDS Integers, Sequences, FiniteSets, TLC

\* ------------------------------------------------------------------ bounds

\* A template is the concatenation of at most MaxLen pieces.
MaxLen == 1
\* At most MaxStmts prepared statements are alive in one behaviour.
MaxStmts == 2

\* ------------------------------------------------------- queries and regexp

\* \w of the pattern: letters, digits and the underscore.
WordChars ==
    { "a", "b", "c", "d", "e", "f", "g", "h", "i", "j", "k", "l", "m",
      "n", "o", "p", "q", "r", "s", "t", "u", "v", "w", "x", "y", "z",
      "A", "B", "C", "D", "E", "F", "G", "H", "I", "J", "K", "L", "M",
      "N", "O", "P", "Q", "R", "S", "T", "U", "V", "W", "X", "Y", "Z",
      "0", "1", "2", "3", "4", "5", "6", "7", "8", "9", "_" }

IsWord(c) == c \in WordChars

Pieces == { <<"?", "a">>, <<"?", "b">>, <<"?">>, <<"x">> }

SeqsUpTo(S, n) == UNION { [1..k -> S] : k \in 0..n }

RECURSIVE Flatten(_)
Flatten(ps) == IF ps = <<>> THEN <<>> ELSE Head(ps) \o Flatten(Tail(ps))

\* "?a ?b ?a": a name used twice around another.
RepeatQuery == <<"?", "a", " ", "?", "b", " ", "?", "a">>

\* "insert into t (a,b) values (?a, ?b)"
InsertQuery ==
    <<"i", "n", "s", "e", "r", "t", " ", "i", "n", "t", "o", " ",
      "t", " ", "(", "a", ",", "b", ")", " ", "v", "a", "l", "u",
      "e", "s", " ", "(", "?", "a", ",", " ", "?", "b", ")">>

\* "a=? b=?b": a positional marker of the caller's own before a name.
MixedQuery == <<"a", "=", "?", " ", "b", "=", "?", "b">>

\* The query templates a caller passes: every concatenation of at most
\* MaxLen pieces, and the three statements above.
Templates ==
    { Flatten(ps) : ps \in SeqsUpTo(Pieces, MaxLen) }
        \cup {RepeatQuery, InsertQuery, MixedQuery}

\* The index of the last character of the run of word characters that
\* starts at j: the greedy \w+ of the pattern.
RECURSIVE WordEnd(_, _)
WordEnd(q, j) ==
    IF j < Len(q) /\ IsWord(q[j + 1]) THEN WordEnd(q, j + 1) ELSE j

\* re = `[?](\w+)`: the leftmost non-overlapping matches of q from index i
\* on, with the text between them.  A match is [named |-> TRUE, text |-> the
\* identifier src[1:]]; any other character is a token of its own.
RECURSIVE Tokens(_, _)
Tokens(q, i) ==
    IF i > Len(q) THEN <<>>
    ELSE IF q[i] = "?" /\ i < Len(q) /\ IsWord(q[i + 1])
         THEN LET e == WordEnd(q, i + 1)
              IN  <<[named |-> TRUE, text |-> SubSeq(q, i + 1, e)]>>
                      \o Tokens(q, e + 1)
         ELSE <<[named |-> FALSE, text |-> <<q[i]>>]>> \o Tokens(q, i + 1)

re(q) == Tokens(q, 1)

\* ------------------------------------------------------------------ values

EmptyMap == [k \in {} |-> 0]

Put(f, k, v) == [x \in (DOMAIN f) \cup {k} |-> IF x = k THEN v ELSE f[x]]

\* A Go value held in an interface{}: a plain scalar, a value whose type
\* implements driver.Valuer (its Value() succeeds or fails), or nil.
Plain(n) == [kind |-> "plain", v |-> n]

Nil == [kind |-> "nil", v |-> 0]

IsValuer(fv) == fv.kind \in {"valuer", "badValuer"}

\* driver.Valuer.Value(): the driver value and the error.
ValuerValue(fv) ==
    IF fv.kind = "valuer"
    THEN [value |-> Plain(fv.v + 10), err |-> "nil"]
    ELSE [value |-> Nil, err |-> "ErrValue"]

KeyNames == { <<"a">>, <<"b">> }

\* The value a caller's map or struct holds under a name.
ValueOf(n) == IF n = <<"a">> THEN 1 ELSE 2

\* The maps a caller passes: any subset of the keys a and b, a holding 1 and
\* b holding 2.
Maps == { [n \in D |-> Plain(ValueOf(n))] : D \in SUBSET KeyNames }

FieldKinds == {"plain", "valuer", "badValuer"}

\* The structs a caller passes: field a holding 1 and field b holding 2, each
\* of a plain type or of a type that implements driver.Valuer.
Structs ==
    { [n \in KeyNames |-> [kind |-> ks[n], v |-> ValueOf(n)]] :
          ks \in [KeyNames -> FieldKinds] }

\* The value of an argument mp / st interface{}: a pointer to a map, a
\* pointer to a struct, or something else (a map or a struct passed by
\* value, a nil interface).
MapPtr(m) == [kind |-> "mapPtr", m |-> m, st |-> EmptyMap]

StructPtr(s) == [kind |-> "structPtr", m |-> EmptyMap, st |-> s]

Other(k) == [kind |-> k, m |-> EmptyMap, st |-> EmptyMap]

OtherKinds == {"value", "nil"}

IsMapPtr(arg) == arg.kind = "mapPtr"

IsStructPtr(arg) == arg.kind = "structPtr"

\* ------------------------------------------------------------ the rewriter

\* The closure of DB.Prepare / Tx.Prepare run over the matches of the query:
\* names[src[1:]] = i; i += 1; return "?".
RECURSIVE PrepareScan(_, _, _)
PrepareScan(toks, k, acc) ==
    IF k > Len(toks) THEN acc
    ELSE LET t == toks[k]
         IN  IF t.named
             THEN PrepareScan(toks, k + 1,
                      [query |-> Append(acc.query, "?"),
                       names |-> Put(acc.names, t.text, acc.i),
                       i     |-> acc.i + 1])
             ELSE PrepareScan(toks, k + 1,
                      [acc EXCEPT !.query = acc.query \o t.text])

\* A variant that keeps the index of a name's first occurrence.
RECURSIVE PrepareScanFirst(_, _, _)
PrepareScanFirst(toks, k, acc) ==
    IF k > Len(toks) THEN acc
    ELSE LET t == toks[k]
         IN  IF t.named
             THEN PrepareScanFirst(toks, k + 1,
                      [query |-> Append(acc.query, "?"),
                       names |-> IF t.text \in DOMAIN acc.names THEN acc.names
                                 ELSE Put(acc.names, t.text, acc.i),
                       i     |-> acc.i + 1])
             ELSE PrepareScanFirst(toks, k + 1,
                      [acc EXCEPT !.query = acc.query \o t.text])

PrepareRewriteFirst(query) ==
    PrepareScanFirst(re(query), 1, [query |-> <<>>, names |-> EmptyMap, i |-> 0])

PrepareRewrite(query) ==
    PrepareScan(re(query), 1, [query |-> <<>>, names |-> EmptyMap, i |-> 0])

\* ------------------------------------------------------------ MapToSlice

RECURSIVE MapScan(_, _, _, _)
MapScan(toks, k, m, acc) ==
    IF k > Len(toks) THEN acc
    ELSE LET t == toks[k]
         IN  IF ~t.named
             THEN MapScan(toks, k + 1, m,
                      [acc EXCEPT !.query = acc.query \o t.text])
             ELSE IF t.text \notin DOMAIN m
             THEN MapScan(toks, k + 1, m,
                      [acc EXCEPT !.query = Append(acc.query, "?"),
                                  !.err = "ErrMissingKey"])
             ELSE MapScan(toks, k + 1, m,
                      [acc EXCEPT !.query = Append(acc.query, "?"),
                                  !.args = Append(acc.args, m[t.text])])

MapToSlice(query, mp) ==
    IF ~IsMapPtr(mp)
    THEN [query |-> <<>>, args |-> <<>>, err |-> "ErrNoMapPointer",
          events |-> <<>>]
    ELSE MapScan(re(query), 1, mp.m,
             [query |-> <<>>, args |-> <<>>, err |-> "nil",
              events |-> <<"ReplaceAllStringFunc">>])

\* ---------------------------------------------------------- StructToSlice

\* FieldByName(name).Interface() panics when the struct has no such field.
RECURSIVE StructScan(_, _, _, _)
StructScan(toks, k, st, acc) ==
    IF k > Len(toks) \/ acc.err = "panic" THEN acc
    ELSE LET t == toks[k]
         IN  IF ~t.named
             THEN StructScan(toks, k + 1, st,
                      [acc EXCEPT !.query = acc.query \o t.text])
             ELSE IF t.text \notin DOMAIN st
             THEN [acc EXCEPT !.err = "panic"]
             ELSE LET fv == st[t.text]
                      r  == ValuerValue(fv)
                  IN  IF IsValuer(fv)
                      THEN IF r.err # "nil"
                           THEN StructScan(toks, k + 1, st,
                                    [acc EXCEPT !.query = Append(acc.query, "?"),
                                                !.err = r.err])
                           ELSE StructScan(toks, k + 1, st,
                                    [acc EXCEPT !.query = Append(acc.query, "?"),
                                                !.err = r.err,
                                                !.args = Append(acc.args, r.value)])
                      ELSE StructScan(toks, k + 1, st,
                               [acc EXCEPT !.query = Append(acc.query, "?"),
                                           !.args = Append(acc.args, fv)])

\* A variant that drops the result of ReplaceAllStringFunc and returns the
\* query it was given.
StructToSliceUnrewritten(query, st) ==
    IF ~IsStructPtr(st)
    THEN [query |-> <<>>, args |-> <<>>, err |-> "ErrNoStructPointer",
          events |-> <<>>]
    ELSE LET r == StructScan(re(query), 1, st.st,
                      [query |-> <<>>, args |-> <<>>, err |-> "nil",
                       events |-> <<"ReplaceAllStringFunc">>])
         IN  IF r.err \notin {"nil", "panic"}
             THEN [r EXCEPT !.query = <<>>, !.args = <<>>]
             ELSE [r EXCEPT !.query = query]

StructToSlice(query, st) ==
    IF ~IsStructPtr(st)
    THEN [query |-> <<>>, args |-> <<>>, err |-> "ErrNoStructPointer",
          events |-> <<>>]
    ELSE LET r == StructScan(re(query), 1, st.st,
                      [query |-> <<>>, args |-> <<>>, err |-> "nil",
                       events |-> <<"ReplaceAllStringFunc">>])
         IN  IF r.err \notin {"nil", "panic"}
             THEN [r EXCEPT !.query = <<>>, !.args = <<>>]
             ELSE r

\* ------------------------------------------------- the prepared binder

\* The orders in which `for k, i := range s.names` may visit the keys.
Orders(S) ==
    { o \in [1..Cardinality(S) -> S] :
          \A i, j \in 1..Cardinality(S) : i # j => o[i] # o[j] }

\* A variant that stores the k-th key visited at position k.
RECURSIVE BindLoopInOrder(_, _, _, _, _)
BindLoopInOrder(names, vals, ord, k, acc) ==
    IF k > Len(ord) \/ acc.err = "panic" THEN acc
    ELSE LET key == ord[k]
         IN  IF key \notin DOMAIN vals \/ k > Len(acc.args)
             THEN [acc EXCEPT !.err = "panic"]
             ELSE BindLoopInOrder(names, vals, ord, k + 1,
                      [acc EXCEPT !.args[k] = vals[key]])

\* args := make([]interface{}, len(s.names)); for k, i := range s.names
\* { args[i] = <value of k>.Interface() }, the keys visited in order ord.
\* Interface() of the zero reflect.Value (no such key, no such field)
\* panics, and so does an index i >= len(args).
RECURSIVE BindLoop(_, _, _, _, _)
BindLoop(names, vals, ord, k, acc) ==
    IF k > Len(ord) \/ acc.err = "panic" THEN acc
    ELSE LET key == ord[k]
             i   == names[key]
         IN  IF key \notin DOMAIN vals \/ i >= Len(acc.args)
             THEN [acc EXCEPT !.err = "panic"]
             ELSE BindLoop(names, vals, ord, k + 1,
                      [acc EXCEPT !.args[i + 1] = vals[key]])

NewArgs(names) ==
    [args |-> [i \in 1..Cardinality(DOMAIN names) |-> Nil], err |-> "nil",
     events |-> <<"range s.names">>]

StmtMapBind(names, mp, ord) ==
    IF ~IsMapPtr(mp)
    THEN [args |-> <<>>, err |-> "errMapPointer", events |-> <<>>]
    ELSE BindLoop(names, mp.m, ord, 1, NewArgs(names))

\* A variant without the check of the argument's kind.
StmtStructBindUnchecked(names, st, ord) ==
    BindLoop(names, st.st, ord, 1, NewArgs(names))

StmtStructBind(names, st, ord) ==
    IF ~IsStructPtr(st)
    THEN [args |-> <<>>, err |-> "errStructPointer", events |-> <<>>]
    ELSE BindLoop(names, st.st, ord, 1, NewArgs(names))

\* ------------------------------------------------------------- the state

VARIABLES
    input,        \* what the caller passes in this behaviour: the query
                  \* template and the mp / st argument
    enableTrace,  \* DB.enableTrace, set by EnableTraceOption at FromDB
    tx,           \* the Tx of the last successful Begin: [open, enableTrace]
    stmts,        \* the Stmt handles: [query, names, enableTrace], names a
                  \* reference into heap
    heap,         \* the map[string]int objects made by Prepare
    last          \* the last facade call: the handle it ran on or returned,
                  \* what it returned, the spans and driver calls it made

vars == <<input, enableTrace, tx, stmts, heap, last>>

NoCall == [op |-> "none", h |-> 0, err |-> "nil", events |-> <<>>, drv |-> <<>>]

Call(op, h, r) ==
    [op |-> op, h |-> h, err |-> r.err, events |-> r.events, drv |-> r.drv]

Args ==
    {MapPtr(m) : m \in Maps} \cup {StructPtr(s) : s \in Structs}
        \cup {Other(k) : k \in OtherKinds}

\* The positional argument lists a caller passes to Exec / Query / QueryRow.
PosArgs == { <<Plain(1)>> }

\* FromDB with or without EnableTraceOption(true).  The caller's query and
\* argument are chosen once, so that every entry point is run on the same
\* input and the handles are prepared from the same template.
Init ==
    /\ input \in [query : Templates, arg : Args]
    /\ enableTrace \in BOOLEAN
    /\ tx = [open |-> FALSE, enableTrace |-> FALSE]
    /\ stmts = <<>>
    /\ heap = <<>>
    /\ last = NoCall

\* ------------------------------------------------------- spans and driver

\* newClientSpanFromContext: opentracing.StartSpan and SetTag.
newClientSpanFromContext == <<"StartSpan">>

\* if enableTrace { span := newClientSpanFromContext(...); defer span.Finish() }
SpanOpen(trace) == IF trace THEN newClientSpanFromContext ELSE <<>>

\* The deferred span.Finish(), run when the function returns.
SpanDefer(trace) == IF trace THEN <<"Finish">> ELSE <<>>

DriverErr(ok) == IF ok THEN "nil" ELSE "ErrDriver"

DriverCall(method, query, args) ==
    [method |-> method, query |-> query, args |-> args]

\* What a call that failed before its driver call returns.
Early(r) == [err |-> r.err, events |-> r.events, drv |-> <<>>]

\* A delegating call: the events of the binding, then those of the callee.
After(r, c) == [c EXCEPT !.events = r.events \o c.events]

\* ------------------------------------------------------------------- DB

DBQuery(trace, query, args, ok) ==
    [err    |-> DriverErr(ok),
     events |-> SpanOpen(trace) \o <<"QueryContext">> \o SpanDefer(trace),
     drv    |-> <<DriverCall("DB.QueryContext", query, args)>>]

DBExec(trace, query, args, ok) ==
    [err    |-> DriverErr(ok),
     events |-> SpanOpen(trace) \o <<"ExecContext">> \o SpanDefer(trace),
     drv    |-> <<DriverCall("DB.ExecContext", query, args)>>]

DBQueryMap(trace, query, mp, ok) ==
    LET r == MapToSlice(query, mp)
    IN  IF r.err # "nil" THEN Early(r)
        ELSE After(r, DBQuery(trace, r.query, r.args, ok))

DBQueryStruct(trace, query, st, ok) ==
    LET r == StructToSlice(query, st)
    IN  IF r.err # "nil" THEN Early(r)
        ELSE After(r, DBQuery(trace, r.query, r.args, ok))

DBQueryRow(trace, query, args, ok) == DBQuery(trace, query, args, ok)

DBQueryRowMap(trace, query, mp, ok) ==
    LET r == MapToSlice(query, mp)
    IN  IF r.err # "nil" THEN Early(r)
        ELSE After(r, DBQueryRow(trace, r.query, r.args, ok))

DBQueryRowStruct(trace, query, st, ok) ==
    LET r == StructToSlice(query, st)
    IN  IF r.err # "nil" THEN Early(r)
        ELSE After(r, DBQueryRow(trace, r.query, r.args, ok))

DBExecMap(trace, query, mp, ok) ==
    LET r == MapToSlice(query, mp)
    IN  IF r.err # "nil" THEN Early(r)
        ELSE After(r, DBExec(trace, r.query, r.args, ok))

DBExecStruct(trace, query, st, ok) ==
    LET r == StructToSlice(query, st)
    IN  IF r.err # "nil" THEN Early(r)
        ELSE After(r, DBExec(trace, r.query, r.args, ok))

\* DB.Prepare up to the driver call: the rewriting, the span, PrepareContext.
DBPrepare(trace, query, ok) ==
    LET w == PrepareRewrite(query)
    IN  [err    |-> DriverErr(ok),
         events |-> <<"ReplaceAllStringFunc">> \o SpanOpen(trace)
                        \o <<"PrepareContext">> \o SpanDefer(trace),
         drv    |-> <<DriverCall("DB.PrepareContext", w.query, <<>>)>>]

\* DB.Begin: the driver's Begin, no span.
DBBegin(ok) ==
    [err |-> DriverErr(ok), events |-> <<"Begin">>,
     drv |-> <<DriverCall("DB.Begin", <<>>, <<>>)>>]

\* A variant in which every Prepare fills one shared table.
SharedNames(h) == 1

\* names := make(map[string]int): a new object, at the next free reference.
MakeNames(h) == Len(h) + 1

\* The heap with table t stored at reference ref.
Store(h, ref, t) ==
    IF ref = Len(h) + 1 THEN Append(h, t) ELSE [h EXCEPT ![ref] = t]

\* &Stmt{stmt, Mapper, names, enableTrace}
NewStmt(query, ref, trace) ==
    [query |-> query, names |-> ref, enableTrace |-> trace]

\* ----------------------------------------------------------------- Stmt

StmtExec(s, args, ok) ==
    [err    |-> DriverErr(ok),
     events |-> SpanOpen(s.enableTrace) \o <<"ExecContext">>
                    \o SpanDefer(s.enableTrace),
     drv    |-> <<DriverCall("Stmt.ExecContext", s.query, args)>>]

StmtExecMap(s, names, mp, ord, ok) ==
    LET r == StmtMapBind(names, mp, ord)
    IN  IF r.err # "nil" THEN Early(r)
        ELSE After(r, StmtExec(s, r.args, ok))

StmtExecStruct(s, names, st, ord, ok) ==
    LET r == StmtStructBind(names, st, ord)
    IN  IF r.err # "nil" THEN Early(r)
        ELSE After(r, StmtExec(s, r.args, ok))

\* A variant that finishes the span only when the driver succeeds.
StmtQueryLeak(s, args, ok) ==
    [err    |-> DriverErr(ok),
     events |-> SpanOpen(s.enableTrace) \o <<"QueryContext">>
                    \o (IF ok THEN SpanDefer(s.enableTrace) ELSE <<>>),
     drv    |-> <<DriverCall("Stmt.QueryContext", s.query, args)>>]

StmtQuery(s, args, ok) ==
    [err    |-> DriverErr(ok),
     events |-> SpanOpen(s.enableTrace) \o <<"QueryContext">>
                    \o SpanDefer(s.enableTrace),
     drv    |-> <<DriverCall("Stmt.QueryContext", s.query, args)>>]

StmtQueryMap(s, names, mp, ord, ok) ==
    LET r == StmtMapBind(names, mp, ord)
    IN  IF r.err # "nil" THEN Early(r)
        ELSE After(r, StmtQuery(s, r.args, ok))

StmtQueryStruct(s, names, st, ord, ok) ==
    LET r == StmtStructBind(names, st, ord)
    IN  IF r.err # "nil" THEN Early(r)
        ELSE After(r, StmtQuery(s, r.args, ok))

StmtQueryRow(s, args, ok) == StmtQuery(s, args, ok)

StmtQueryRowMap(s, names, mp, ord, ok) ==
    LET r == StmtMapBind(names, mp, ord)
    IN  IF r.err # "nil" THEN Early(r)
        ELSE After(r, StmtQueryRow(s, r.args, ok))

StmtQueryRowStruct(s, names, st, ord, ok) ==
    LET r == StmtStructBind(names, st, ord)
    IN  IF r.err # "nil" THEN Early(r)
        ELSE After(r, StmtQueryRow(s, r.args, ok))

\* ------------------------------------------------------------------- Tx

TxPrepare(trace, query, ok) ==
    LET w == PrepareRewrite(query)
    IN  [err    |-> DriverErr(ok),
         events |-> <<"ReplaceAllStringFunc">> \o SpanOpen(trace)
                        \o <<"PrepareContext">> \o SpanDefer(trace),
         drv    |-> <<DriverCall("Tx.PrepareContext", w.query, <<>>)>>]

\* Tx.Stmt returns the statement it is given.
TxStmt(h) == h

TxExec(trace, query, args, ok) ==
    [err    |-> DriverErr(ok),
     events |-> SpanOpen(trace) \o <<"ExecContext">> \o SpanDefer(trace),
     drv    |-> <<DriverCall("Tx.ExecContext", query, args)>>]

TxExecMap(trace, query, mp, ok) ==
    LET r == MapToSlice(query, mp)
    IN  IF r.err # "nil" THEN Early(r)
        ELSE After(r, TxExec(trace, r.query, r.args, ok))

TxExecStruct(trace, query, st, ok) ==
    LET r == StructToSlice(query, st)
    IN  IF r.err # "nil" THEN Early(r)
        ELSE After(r, TxExec(trace, r.query, r.args, ok))

TxQuery(trace, query, args, ok) ==
    [err    |-> DriverErr(ok),
     events |-> SpanOpen(trace) \o <<"QueryContext">> \o SpanDefer(trace),
     drv    |-> <<DriverCall("Tx.QueryContext", query, args)>>]

TxQueryMap(trace, query, mp, ok) ==
    LET r == MapToSlice(query, mp)
    IN  IF r.err # "nil" THEN Early(r)
        ELSE After(r, TxQuery(trace, r.query, r.args, ok))

TxQueryStruct(trace, query, st, ok) ==
    LET r == StructToSlice(query, st)
    IN  IF r.err # "nil" THEN Early(r)
        ELSE After(r, TxQuery(trace, r.query, r.args, ok))

TxQueryRow(trace, query, args, ok) == TxQuery(trace, query, args, ok)

TxQueryRowMap(trace, query, mp, ok) ==
    LET r == MapToSlice(query, mp)
    IN  IF r.err # "nil" THEN Early(r)
        ELSE After(r, TxQueryRow(trace, r.query, r.args, ok))

TxQueryRowStruct(trace, query, st, ok) ==
    LET r == StructToSlice(query, st)
    IN  IF r.err # "nil" THEN Early(r)
        ELSE After(r, TxQueryRow(trace, r.query, r.args, ok))

\* ------------------------------------------------------------ the actions

\* A call that changes nothing but what it returns.
Returns(c) ==
    /\ last' = c
    /\ UNCHANGED <<input, enableTrace, tx, stmts, heap>>

\* A successful Prepare: the new handle owns a new name table.
Prepared(query, trace, c) ==
    LET w   == PrepareRewrite(query)
        ref == MakeNames(heap)
    IN  /\ stmts' = Append(stmts, NewStmt(w.query, ref, trace))
        /\ heap' = Store(heap, ref, w.names)
        /\ last' = c
        /\ UNCHANGED <<input, enableTrace, tx>>

\* The name table of handle h.
NamesOf(h) == heap[stmts[h].names]

CallDBQuery ==
    \E a \in PosArgs, ok \in BOOLEAN :
        /\ Returns(Call("DB.Query", 0, DBQuery(enableTrace, input.query, a, ok)))

CallDBExec ==
    \E a \in PosArgs, ok \in BOOLEAN :
        /\ Returns(Call("DB.Exec", 0, DBExec(enableTrace, input.query, a, ok)))

CallDBQueryRow ==
    \E a \in PosArgs, ok \in BOOLEAN :
        /\ Returns(Call("DB.QueryRow", 0, DBQueryRow(enableTrace, input.query, a, ok)))

CallDBQueryMap ==
    \E ok \in BOOLEAN :
        /\ Returns(Call("DB.QueryMap", 0,
                        DBQueryMap(enableTrace, input.query, input.arg, ok)))

CallDBQueryStruct ==
    \E ok \in BOOLEAN :
        /\ Returns(Call("DB.QueryStruct", 0,
                        DBQueryStruct(enableTrace, input.query, input.arg, ok)))

CallDBQueryRowMap ==
    \E ok \in BOOLEAN :
        /\ Returns(Call("DB.QueryRowMap", 0,
                        DBQueryRowMap(enableTrace, input.query, input.arg, ok)))

CallDBQueryRowStruct ==
    \E ok \in BOOLEAN :
        /\ Returns(Call("DB.QueryRowStruct", 0,
                        DBQueryRowStruct(enableTrace, input.query, input.arg, ok)))

CallDBExecMap ==
    \E ok \in BOOLEAN :
        /\ Returns(Call("DB.ExecMap", 0,
                        DBExecMap(enableTrace, input.query, input.arg, ok)))

CallDBExecStruct ==
    \E ok \in BOOLEAN :
        /\ Returns(Call("DB.ExecStruct", 0,
                        DBExecStruct(enableTrace, input.query, input.arg, ok)))

CallDBPrepare ==
    \E ok \in BOOLEAN :
        /\ Len(stmts) < MaxStmts
        /\ LET c == Call("DB.Prepare", IF ok THEN Len(stmts) + 1 ELSE 0,
                         DBPrepare(enableTrace, input.query, ok))
           IN  IF ok THEN Prepared(input.query, enableTrace, c) ELSE Returns(c)

CallTxQuery ==
    \E a \in PosArgs, ok \in BOOLEAN :
        /\ tx.open
        /\ Returns(Call("Tx.Query", 0, TxQuery(tx.enableTrace, input.query, a, ok)))

CallTxExec ==
    \E a \in PosArgs, ok \in BOOLEAN :
        /\ tx.open
        /\ Returns(Call("Tx.Exec", 0, TxExec(tx.enableTrace, input.query, a, ok)))

CallTxQueryRow ==
    \E a \in PosArgs, ok \in BOOLEAN :
        /\ tx.open
        /\ Returns(Call("Tx.QueryRow", 0, TxQueryRow(tx.enableTrace, input.query, a, ok)))

CallTxQueryMap ==
    \E ok \in BOOLEAN :
        /\ tx.open
        /\ Returns(Call("Tx.QueryMap", 0,
                        TxQueryMap(tx.enableTrace, input.query, input.arg, ok)))

CallTxQueryStruct ==
    \E ok \in BOOLEAN :
        /\ tx.open
        /\ Returns(Call("Tx.QueryStruct", 0,
                        TxQueryStruct(tx.enableTrace, input.query, input.arg, ok)))

CallTxQueryRowMap ==
    \E ok \in BOOLEAN :
        /\ tx.open
        /\ Returns(Call("Tx.QueryRowMap", 0,
                        TxQueryRowMap(tx.enableTrace, input.query, input.arg, ok)))

CallTxQueryRowStruct ==
    \E ok \in BOOLEAN :
        /\ tx.open
        /\ Returns(Call("Tx.QueryRowStruct", 0,
                        TxQueryRowStruct(tx.enableTrace, input.query, input.arg, ok)))

CallTxExecMap ==
    \E ok \in BOOLEAN :
        /\ tx.open
        /\ Returns(Call("Tx.ExecMap", 0,
                        TxExecMap(tx.enableTrace, input.query, input.arg, ok)))

CallTxExecStruct ==
    \E ok \in BOOLEAN :
        /\ tx.open
        /\ Returns(Call("Tx.ExecStruct", 0,
                        TxExecStruct(tx.enableTrace, input.query, input.arg, ok)))

CallTxPrepare ==
    \E ok \in BOOLEAN :
        /\ tx.open
        /\ Len(stmts) < MaxStmts
        /\ LET c == Call("Tx.Prepare", IF ok THEN Len(stmts) + 1 ELSE 0,
                         TxPrepare(tx.enableTrace, input.query, ok))
           IN  IF ok THEN Prepared(input.query, tx.enableTrace, c) ELSE Returns(c)

CallDBBegin ==
    \E ok \in BOOLEAN :
        /\ tx' = IF ok THEN [open |-> TRUE, enableTrace |-> enableTrace] ELSE tx
        /\ last' = Call("DB.Begin", 0, DBBegin(ok))
        /\ UNCHANGED <<input, enableTrace, stmts, heap>>

CallTxStmt ==
    \E h \in DOMAIN stmts :
        /\ tx.open
        /\ Returns(Call("Tx.Stmt", TxStmt(h),
                        [err |-> "nil", events |-> <<>>, drv |-> <<>>]))

CallStmtExec ==
    \E h \in DOMAIN stmts, a \in PosArgs, ok \in BOOLEAN :
        Returns(Call("Stmt.Exec", h, StmtExec(stmts[h], a, ok)))

CallStmtQuery ==
    \E h \in DOMAIN stmts, a \in PosArgs, ok \in BOOLEAN :
        Returns(Call("Stmt.Query", h, StmtQuery(stmts[h], a, ok)))

CallStmtQueryRow ==
    \E h \in DOMAIN stmts, a \in PosArgs, ok \in BOOLEAN :
        Returns(Call("Stmt.QueryRow", h, StmtQueryRow(stmts[h], a, ok)))

CallStmtExecMap ==
    \E h \in DOMAIN stmts, ok \in BOOLEAN :
        \E ord \in Orders(DOMAIN NamesOf(h)) :
            Returns(Call("Stmt.ExecMap", h,
                         StmtExecMap(stmts[h], NamesOf(h), input.arg, ord, ok)))

CallStmtExecStruct ==
    \E h \in DOMAIN stmts, ok \in BOOLEAN :
        \E ord \in Orders(DOMAIN NamesOf(h)) :
            Returns(Call("Stmt.ExecStruct", h,
                         StmtExecStruct(stmts[h], NamesOf(h), input.arg, ord, ok)))

CallStmtQueryMap ==
    \E h \in DOMAIN stmts, ok \in BOOLEAN :
        \E ord \in Orders(DOMAIN NamesOf(h)) :
            Returns(Call("Stmt.QueryMap", h,
                         StmtQueryMap(stmts[h], NamesOf(h), input.arg, ord, ok)))

CallStmtQueryStruct ==
    \E h \in DOMAIN stmts, ok \in BOOLEAN :
        \E ord \in Orders(DOMAIN NamesOf(h)) :
            Returns(Call("Stmt.QueryStruct", h,
                         StmtQueryStruct(stmts[h], NamesOf(h), input.arg, ord, ok)))

CallStmtQueryRowMap ==
    \E h \in DOMAIN stmts, ok \in BOOLEAN :
        \E ord \in Orders(DOMAIN NamesOf(h)) :
            Returns(Call("Stmt.QueryRowMap", h,
                         StmtQueryRowMap(stmts[h], NamesOf(h), input.arg, ord, ok)))

CallStmtQueryRowStruct ==
    \E h \in DOMAIN stmts, ok \in BOOLEAN :
        \E ord \in Orders(DOMAIN NamesOf(h)) :
            Returns(Call("Stmt.QueryRowStruct", h,
                         StmtQueryRowStruct(stmts[h], NamesOf(h), input.arg, ord, ok)))

DBCalls ==
    \/ CallDBQuery
    \/ CallDBExec
    \/ CallDBQueryMap
    \/ CallDBQueryStruct
    \/ CallDBQueryRow
    \/ CallDBQueryRowMap
    \/ CallDBQueryRowStruct
    \/ CallDBExecMap
    \/ CallDBExecStruct

TxCalls ==
    \/ CallTxExec
    \/ CallTxExecMap
    \/ CallTxExecStruct
    \/ CallTxQuery
    \/ CallTxQueryMap
    \/ CallTxQueryStruct
    \/ CallTxQueryRow
    \/ CallTxQueryRowMap
    \/ CallTxQueryRowStruct

StmtCalls ==
    \/ CallStmtExec
    \/ CallStmtExecMap
    \/ CallStmtExecStruct
    \/ CallStmtQuery
    \/ CallStmtQueryMap
    \/ CallStmtQueryStruct
    \/ CallStmtQueryRow
    \/ CallStmtQueryRowMap
    \/ CallStmtQueryRowStruct

PrepareCalls ==
    \/ CallDBPrepare
    \/ CallTxPrepare
    \/ CallTxStmt

\* Every entry point of the package.
Next == CallDBBegin \/ DBCalls \/ TxCalls \/ PrepareCalls \/ StmtCalls

Spec == Init /\ [][Next]_vars

\* The one-shot entry points of DB and Tx alone.
NextOneShot == CallDBBegin \/ DBCalls \/ TxCalls

SpecOneShot == Init /\ [][NextOneShot]_vars

\* Prepare and the entry points of Stmt alone.
NextStmt == CallDBBegin \/ PrepareCalls \/ StmtCalls

SpecStmt == Init /\ [][NextStmt]_vars

\* ----------------------------------------------------- the claims' terms

\* The k-th smallest element of a set of numbers.
Nth(S, k) == CHOOSE p \in S : Cardinality({ x \in S : x <= p }) = k

\* Where a `?identifier` token starts in q: a ? with a word character next.
MatchStarts(q) ==
    { i \in 1..Len(q) : q[i] = "?" /\ i < Len(q) /\ IsWord(q[i + 1]) }

\* The end of the longest run of word characters that starts at i.
RunEnd(q, i) ==
    CHOOSE e \in i..Len(q) :
        /\ \A j \in i..e : IsWord(q[j])
        /\ e = Len(q) \/ ~IsWord(q[e + 1])

\* The identifiers of the `?identifier` tokens of q, left to right.
MatchNames(q) ==
    [k \in 1..Cardinality(MatchStarts(q)) |->
         LET i == Nth(MatchStarts(q), k) IN SubSeq(q, i + 1, RunEnd(q, i + 1))]

UsedNames(q) == { MatchNames(q)[i] : i \in 1..Len(MatchNames(q)) }

\* The positions of q outside the identifiers of its `?identifier` tokens.
Kept(q) ==
    { p \in 1..Len(q) :
          ~\E i \in MatchStarts(q) : i < p /\ p <= RunEnd(q, i + 1) }

\* q with each `?identifier` token replaced by `?`.
Replaced(q) == [k \in 1..Cardinality(Kept(q)) |-> q[Nth(Kept(q), k)]]

\* The number of positional markers of a rewritten query.
Markers(q) == Cardinality({ i \in 1..Len(q) : q[i] = "?" })

\* The zero-based index of the last occurrence of n among the matches ns.
LastIndex(ns, n) ==
    (CHOOSE i \in 1..Len(ns) : ns[i] = n /\ \A j \in (i + 1)..Len(ns) : ns[j] # n) - 1

MapOps ==
    { "DB.ExecMap", "DB.QueryMap", "DB.QueryRowMap",
      "Tx.ExecMap", "Tx.QueryMap", "Tx.QueryRowMap",
      "Stmt.ExecMap", "Stmt.QueryMap", "Stmt.QueryRowMap" }

StructOps ==
    { "DB.ExecStruct", "DB.QueryStruct", "DB.QueryRowStruct",
      "Tx.ExecStruct", "Tx.QueryStruct", "Tx.QueryRowStruct",
      "Stmt.ExecStruct", "Stmt.QueryStruct", "Stmt.QueryRowStruct" }

StmtOps ==
    { "Stmt.Exec", "Stmt.Query", "Stmt.QueryRow",
      "Stmt.ExecMap", "Stmt.QueryMap", "Stmt.QueryRowMap",
      "Stmt.ExecStruct", "Stmt.QueryStruct", "Stmt.QueryRowStruct" }

PrepareOps == { "DB.Prepare", "Tx.Prepare" }

\* The entry points that start a span when tracing is enabled.
TracedOps ==
    MapOps \cup StructOps \cup StmtOps \cup PrepareOps
        \cup { "DB.Exec", "DB.Query", "DB.QueryRow",
               "Tx.Exec", "Tx.Query", "Tx.QueryRow" }

DriverEvents == { "ExecContext", "QueryContext", "PrepareContext" }

InvalidArgumentKind ==
    { "ErrNoMapPointer", "ErrNoStructPointer", "errMapPointer", "errStructPointer" }

\* The argument is a map that has every name of the template.
MapSupplies == IsMapPtr(input.arg) /\ UsedNames(input.query) \subseteq DOMAIN input.arg.m

\* The argument is a struct that has a field for every name of the template.
StructSupplies ==
    IsStructPtr(input.arg) /\ UsedNames(input.query) \subseteq DOMAIN input.arg.st

\* The last call was a Map call with a map, or a Struct call with a struct,
\* that supplies every name.
Supplied ==
    \/ last.op \in MapOps /\ MapSupplies
    \/ last.op \in StructOps /\ StructSupplies

\* The value the argument holds under name n.
Bound(n) == IF IsMapPtr(input.arg) THEN input.arg.m[n] ELSE input.arg.st[n]

\* The positions of event e in the last call.
At(e) == { i \in 1..Len(last.events) : last.events[i] = e }

\* ------------------------------------------------------------- the claims

\* C1: a mapping-form call (DB, Tx or Stmt; Exec, Query or QueryRow) with a
\* map that lacks a name the template uses returns the missing-key error
\* and issues no driver call.
C1_MissingKeyIsAnError ==
    (/\ last.op \in MapOps
     /\ IsMapPtr(input.arg)
     /\ ~(UsedNames(input.query) \subseteq DOMAIN input.arg.m))
        => last.err = "ErrMissingKey" /\ last.drv = <<>>

\* C2: a one-shot struct-form call in which the Value() of at least one
\* field the template names fails returns that error and issues no driver
\* call, wherever the other fields stand and however they convert.
C2_ConversionErrorIsReturned ==
    (/\ last.op \in StructOps \ StmtOps
     /\ StructSupplies
     /\ \E n \in UsedNames(input.query) : input.arg.st[n].kind = "badValuer")
        => last.err = "ErrValue" /\ last.drv = <<>>

\* C3: a Map or Struct call on a prepared statement, with an argument that
\* supplies every name, hands the driver as many arguments as the rewritten
\* query has positional markers, the one at ordinal i being the value bound
\* to the name recorded at i.
C3_StmtArgsFitTheMarkers ==
    (last.op \in StmtOps /\ Supplied)
        => /\ Len(last.drv) = 1
           /\ Len(last.drv[1].args) = Markers(stmts[last.h].query)
           /\ \A n \in DOMAIN NamesOf(last.h) :
                  /\ NamesOf(last.h)[n] + 1 \in DOMAIN last.drv[1].args
                  /\ last.drv[1].args[NamesOf(last.h)[n] + 1] = Bound(n)

\* C4: for the same template and the same argument supplying every name,
\* the transaction's Exec call and the prepared statement's Exec call hand
\* the driver the rewritten query and the argument list that the
\* connection's one-shot call hands it.
C4_PathsAgree ==
    (last.op \in { "Tx.ExecMap", "Tx.ExecStruct", "Stmt.ExecMap", "Stmt.ExecStruct" }
         /\ Supplied)
        => LET d == IF last.op \in MapOps
                    THEN DBExecMap(enableTrace, input.query, input.arg, TRUE)
                    ELSE DBExecStruct(enableTrace, input.query, input.arg, TRUE)
           IN  /\ Len(d.drv) = Len(last.drv)
               /\ \A i \in DOMAIN d.drv :
                      /\ last.drv[i].query = d.drv[i].query
                      /\ last.drv[i].args = d.drv[i].args

\* C5: Prepare (on DB and on Tx) hands the driver the template with one `?`
\* per `?identifier` match, and the handle's name table maps each name to
\* the zero-based index of its last occurrence among the matches; with no
\* match the template is unchanged and the table is empty.
C5_PrepareNameTable ==
    last.op \in PrepareOps
        => LET ns == MatchNames(input.query)
           IN  /\ last.drv[1].query = Replaced(input.query)
               /\ Markers(last.drv[1].query)
                      = Len(ns) + Markers(input.query) - Cardinality(MatchStarts(input.query))
               /\ ns = <<>> => last.drv[1].query = input.query
               /\ last.h # 0 =>
                      /\ stmts[last.h].query = Replaced(input.query)
                      /\ DOMAIN NamesOf(last.h) = UsedNames(input.query)
                      /\ \A n \in UsedNames(input.query) :
                             NamesOf(last.h)[n] = LastIndex(ns, n)

\* C5's case: "?a ?b ?a" prepared on a transaction, a at 2 and b at 1.
C5_Witness ==
    /\ last.op = "Tx.Prepare"
    /\ last.h # 0
    /\ input.query = RepeatQuery
    /\ Markers(stmts[last.h].query) = 3
    /\ NamesOf(last.h) = [n \in KeyNames |-> IF n = <<"a">> THEN 2 ELSE 1]

\* C6: a Map call whose argument is no pointer to a map, and a Struct call
\* whose argument is no pointer to a struct, on DB, Tx or Stmt, returns the
\* argument-kind error having rewritten nothing, looked nothing up and
\* called no driver.
C6_WrongKindFailsFirst ==
    (\/ last.op \in MapOps /\ ~IsMapPtr(input.arg)
     \/ last.op \in StructOps /\ ~IsStructPtr(input.arg))
        => /\ last.err \in InvalidArgumentKind
           /\ last.events = <<>>
           /\ last.drv = <<>>

\* C6's case: a prepared statement's ExecStruct given a pointer to a map.
C6_Witness ==
    /\ last.op = "Stmt.ExecStruct"
    /\ IsMapPtr(input.arg)
    /\ DOMAIN NamesOf(last.h) # {}
    /\ last.err = "errStructPointer"

\* C7: a one-shot Struct call whose template names only fields of plain
\* types hands the driver the template with each `?identifier` replaced by
\* `?` and, at position i, the value of the field the i-th token names.
C7_StructToSliceBinds ==
    (/\ last.op \in StructOps \ StmtOps
     /\ StructSupplies
     /\ \A n \in UsedNames(input.query) : input.arg.st[n].kind = "plain")
        => LET ns == MatchNames(input.query)
           IN  /\ Len(last.drv) = 1
               /\ last.drv[1].query = Replaced(input.query)
               /\ last.drv[1].args = [i \in 1..Len(ns) |-> input.arg.st[ns[i]]]

\* C7's case: the insert statement with the record {a: 1, b: 2}.
C7_Witness ==
    /\ last.op = "DB.ExecStruct"
    /\ input.query = InsertQuery
    /\ last.drv # <<>>
    /\ Markers(last.drv[1].query) = 2
    /\ last.drv[1].args = <<Plain(1), Plain(2)>>

\* C8: with tracing enabled, a call that reaches the driver starts exactly
\* one span, before its driver call, and finishes it after the driver call
\* as the last thing it does, whether the driver succeeds or fails.
C8_SpanIsScoped ==
    (enableTrace /\ last.op \in TracedOps /\ last.drv # <<>>)
        => /\ Cardinality(At("StartSpan")) = 1
           /\ Cardinality(At("Finish")) = 1
           /\ Cardinality(UNION { At(e) : e \in DriverEvents }) = 1
           /\ \A s \in At("StartSpan"), f \in At("Finish") :
                  /\ f = Len(last.events)
                  /\ \A e \in DriverEvents : \A d \in At(e) : s < d /\ d < f

\* C8's case: a traced QueryRowMap on a prepared statement whose driver
\* call fails.
C8_Witness ==
    /\ enableTrace
    /\ last.op = "Stmt.QueryRowMap"
    /\ last.err = "ErrDriver"
    /\ last.events = <<"range s.names", "StartSpan", "QueryContext", "Finish">>

\* C9: what a prepared statement's Map call binds from a map that supplies
\* every name is the same for every order in which range visits s.names.
C9_OrderOfRangeIsIrrelevant ==
    (last.op \in MapOps \cap StmtOps /\ MapSupplies)
        => \A ord \in Orders(DOMAIN NamesOf(last.h)) :
               LET r == StmtMapBind(NamesOf(last.h), input.arg, ord)
               IN  IF r.err = "nil"
                   THEN last.drv # <<>> /\ last.drv[1].args = r.args
                   ELSE last.drv = <<>> /\ last.err = r.err

\* C9's case: a table of two names, bound and handed to the driver.
C9_Witness ==
    /\ last.op = "Stmt.QueryMap"
    /\ MapSupplies
    /\ Cardinality(DOMAIN NamesOf(last.h)) = 2
    /\ last.drv # <<>>
    /\ last.drv[1].args = <<Plain(1), Plain(2)>>

\* C10: the handles' name tables are distinct objects, equal when prepared
\* from the same template, and every one is, after any calls, the table its
\* Prepare built.
C10_NameTablesAreOwned ==
    /\ \A h \in DOMAIN stmts :
           /\ stmts[h].names \in DOMAIN heap
           /\ NamesOf(h) = PrepareRewrite(input.query).names
    /\ \A g, h \in DOMAIN stmts :
           g # h => stmts[g].names # stmts[h].names /\ NamesOf(g) = NamesOf(h)

\* C10's case: two handles from one template, after a call on the first.
C10_Witness ==
    /\ Len(stmts) = 2
    /\ tx.open
    /\ last.op = "Stmt.ExecMap"
    /\ last.h = 1
    /\ last.drv # <<>>
    /\ DOMAIN NamesOf(1) = KeyNames

====
